---- MODULE Spec2Model ----
(***************************************************************************)
(* OpenDecoder (fastertransformer/open_decoder.h): one decoding step of    *)
(* one transformer decoder layer.  The model covers the constructor's      *)
(* reading of decoding_gemm_config.in, getWorkspaceSize, initialize (the   *)
(* slicing of the workspace and the copy of the fused QKV pointer arrays), *)
(* and forward (the order in which the sub-kernels are invoked and how a   *)
(* failure leaves it).  Addresses and sizes are in bytes.                  *)
(***************************************************************************)
EXTENDS Integers, Sequences, FiniteSets, Bags, TLC

VARIABLES
    op,                 \* Traits_::OpType of the instantiation: "FP32" or "FP16"
    ndebug,             \* TRUE when the build defines NDEBUG
    file,               \* decoding_gemm_config.in: [present, toks]
    ctor,               \* the constructor's arguments
    life,               \* "new", "constructed" or "exited" (exit(-1) was called)
    cublasAlgo_,
    is_fuse_QKV,
    batch_size_,
    max_seq_len_,
    head_num_,
    size_per_head_,
    hidden_units_,
    param_,
    norm_from_tensor_buf_, query_buf_, key_buf_, value_buf_, context_buf_,
    masked_output_buf_, norm_masked_output_buf_,
    cross_output_buf_, norm_cross_output_buf_, ffn_inner_buf_,
    qkv_kernel_, qkv_input_, qkv_buf_,
    bound,              \* the buf of the latest initialize call, 0 before the first
    inits,              \* number of initialize calls so far
    copies,             \* number of cudaMemcpyAsync calls so far
    queue,              \* param_.stream: the operations enqueued and not yet executed
    dmem,               \* device memory of the pointer slots written so far
    tensors,            \* device memory of the tensors the kernels have written
    devErr,             \* the device is in a sticky error state
    pc,                 \* forward: "idle", "call" (about to invoke the next
                        \* sub-kernel) or "check" (in the debug build's check)
    fwd,                \* the arguments of the forward call in progress or last made
    at,                 \* the workspace and the weights bound when it was made
    trace,              \* the sub-kernel invocations of that call, in order
    result,             \* "none", "running", "returned" or "threw"
    calls,              \* number of forward calls so far
    failedAt,           \* Len(trace) when a sub-kernel of the call first failed, else 0
    failKind            \* "none", "throw" (the invocation threw) or "fault" (its
                        \* kernel failed on the device)

tuningVars == <<cublasAlgo_, is_fuse_QKV>>
dimVars == <<batch_size_, max_seq_len_, head_num_, size_per_head_, hidden_units_>>
bufVars == <<norm_from_tensor_buf_, query_buf_, key_buf_, value_buf_, context_buf_,
             masked_output_buf_, norm_masked_output_buf_,
             cross_output_buf_, norm_cross_output_buf_, ffn_inner_buf_,
             qkv_kernel_, qkv_input_, qkv_buf_>>
objVars == <<tuningVars, dimVars, param_, bufVars, bound, inits, copies>>
devVars == <<queue, dmem, tensors, devErr>>
envVars == <<op, ndebug, file, ctor>>
fwdVars == <<pc, fwd, at, trace, result, calls, failedAt, failKind>>
vars == <<envVars, life, objVars, devVars, fwdVars>>

(***************************************************************************)
(* Bounds of the model.                                                    *)
(***************************************************************************)
MaxTime == 3            \* timings of the tuning file are 0..MaxTime
MaxBatch == 2
MaxHeads == 2
MaxSizePerHead == 2
MaxInits == 2           \* initialize is called at most MaxInits times
MaxCalls == 1           \* forward is called at most MaxCalls times, with step 0, 1, ...

(***************************************************************************)
(* cuBLAS algorithm ids named by the constructor.                          *)
(***************************************************************************)
CUBLAS_GEMM_DEFAULT == -1
CUBLAS_GEMM_ALGO23 == 23
CUBLAS_GEMM_DEFAULT_TENSOR_OP == 99
CUBLAS_GEMM_ALGO15_TENSOR_OP == 115

OpTypes == {"FP32", "FP16"}

\* The least and the greatest id the constructor accepts for a precision.
AlgoLo(o) == IF o = "FP32" THEN CUBLAS_GEMM_DEFAULT ELSE CUBLAS_GEMM_DEFAULT_TENSOR_OP
AlgoHi(o) == IF o = "FP32" THEN CUBLAS_GEMM_ALGO23 ELSE CUBLAS_GEMM_ALGO15_TENSOR_OP

(***************************************************************************)
(* The tuning file as a sequence of whitespace-separated tokens.  A token  *)
(* is an integer ("int"), a number written with a decimal point and a zero *)
(* fraction ("flt"), or text that starts no number ("junk").               *)
(***************************************************************************)
Tok(k, v) == [k |-> k, v |-> v]

\* The conversions of the fscanf format, in order: conv is the conversion
\* letter, assign is FALSE for a suppressed (%*) conversion.
Format ==
    << [conv |-> "d", assign |-> FALSE], [conv |-> "f", assign |-> FALSE],
       [conv |-> "d", assign |-> TRUE],  [conv |-> "f", assign |-> TRUE],
       [conv |-> "d", assign |-> TRUE],  [conv |-> "f", assign |-> FALSE],
       [conv |-> "d", assign |-> TRUE],  [conv |-> "f", assign |-> FALSE],
       [conv |-> "d", assign |-> TRUE],  [conv |-> "f", assign |-> FALSE],
       [conv |-> "d", assign |-> TRUE],  [conv |-> "f", assign |-> TRUE] >>

EOF_ == -1

\* fscanf over the tokens `toks` from conversion i on, `got` being the values
\* assigned so far.  %d takes an "int" token whole and of a "flt" token the
\* digits before the point, leaving the fraction ".0" as the next input; %f
\* takes an "int" or a "flt" token whole.  The scan stops at the end of the
\* input or at the first token that matches no number.
RECURSIVE Scan(_, _, _)
Scan(toks, i, got) ==
    IF i > Len(Format) THEN [n |-> Len(got), got |-> got]
    ELSE IF toks = << >>
         THEN [n |-> IF got = << >> THEN EOF_ ELSE Len(got), got |-> got]
    ELSE IF Head(toks).k = "junk" THEN [n |-> Len(got), got |-> got]
    ELSE LET t == Head(toks)
             got2 == IF Format[i].assign THEN Append(got, t.v) ELSE got
             rest == IF Format[i].conv = "d" /\ t.k = "flt"
                     THEN <<Tok("flt", 0)>> \o Tail(toks)
                     ELSE Tail(toks)
         IN Scan(rest, i + 1, got2)

\* The value fscanf returns and the objects it has assigned, in argument
\* order: cublasAlgo_[0], split_time, cublasAlgo_[1..4], fused_time.
fscanf(f) == Scan(f.toks, 1, << >>)

\* is_fuse_QKV = fused_time < split_time * 3 ? true : false
FuseLE(fused_time, split_time) == fused_time <= split_time * 3
FuseDecision(fused_time, split_time) == fused_time < split_time * 3

\* the range check of the gemm_config setting
AlgoRunnableOpen(o, a) == ~(a >= AlgoHi(o) \/ a < AlgoLo(o))
AlgoRunnable(o, a) == ~(a > AlgoHi(o) \/ a < AlgoLo(o))

\* the test that selects the default algorithms
LoadFailedMissing(err) == err = 0
LoadFailed(err) == err # 7

(***************************************************************************)
(* The constructor.  r is what fscanf returned and assigned (err = 0 and   *)
(* nothing assigned when fopen failed); the objects it did not assign keep *)
(* an indeterminate value: garbageAlgo, and garbageFuse for is_fuse_QKV    *)
(* when line 129 compares unassigned timings or is not reached.  algo129   *)
(* and fuse129 are cublasAlgo_ and is_fuse_QKV after line 131.             *)
(***************************************************************************)
Garbage(o) == {AlgoLo(o), AlgoHi(o) + 1}
DefaultAlgo(o) == IF o = "FP32" THEN CUBLAS_GEMM_DEFAULT ELSE CUBLAS_GEMM_DEFAULT_TENSOR_OP

\* hidden_units_ = head_num_ * size_per_head_
HiddenUnitsHeadsOnly(head_num, size_per_head) == head_num
HiddenUnits(head_num, size_per_head) == head_num * size_per_head

\* cublasAlgo_ as fscanf leaves it: got[1], got[3..6] are the ids
AlgoSlot(i) == IF i = 0 THEN 1 ELSE i + 2
ScannedAlgo(r, garbageAlgo) ==
    [i \in 0..4 |-> IF AlgoSlot(i) <= Len(r.got) THEN r.got[AlgoSlot(i)] ELSE garbageAlgo[i]]

OpenDecoder ==
    /\ life = "new"
    /\ \E garbageFuse \in BOOLEAN, garbageAlgo \in Garbage(op),
          r \in {IF file.present THEN fscanf(file) ELSE [n |-> 0, got |-> << >>]} :
         \E algo129 \in {ScannedAlgo(r, [i \in 0..4 |-> garbageAlgo])},
            fuse129 \in {IF Len(r.got) = 7 THEN FuseDecision(r.got[7], r.got[2])
                         ELSE garbageFuse} :
            /\ batch_size_' = ctor.batch_size
            /\ max_seq_len_' = ctor.seq_len
            /\ head_num_' = ctor.head_num
            /\ size_per_head_' = ctor.size_per_head
            /\ hidden_units_' = HiddenUnits(ctor.head_num, ctor.size_per_head)
            /\ IF LoadFailed(r.n)
               THEN /\ cublasAlgo_' = [i \in 0..4 |-> DefaultAlgo(op)]
                    /\ is_fuse_QKV' = FALSE
                    /\ life' = "constructed"
               ELSE /\ cublasAlgo_' = algo129
                    /\ is_fuse_QKV' = fuse129
                    /\ life' = IF \A i \in 0..4 : AlgoRunnable(op, algo129[i])
                               THEN "constructed" ELSE "exited"
    /\ UNCHANGED <<envVars, param_, bufVars, bound, inits, copies, devVars, fwdVars>>

(***************************************************************************)
(* The workspace.  DataType_ is float for FP32 and half for FP16; pointers *)
(* are device pointers of a 64-bit build.                                  *)
(***************************************************************************)
PointerSize == 8
ElemSize(o) == IF o = "FP32" THEN 4 ELSE 2

\* int getWorkspaceSize()
getWorkspaceSizeNoSlots == batch_size_ * hidden_units_ * 13
getWorkspaceSize ==
    LET buf_size == batch_size_ * hidden_units_
    IN 13 * buf_size + PointerSize * 9

\* p + n for a DataType_ *p, and for a DataType_ **p
ElemAdd(p, n) == p + n * ElemSize(op)
SlotAdd(p, n) == p + n * PointerSize

\* The weights and handles of a DecoderInitParam, as device addresses: w
\* numbers the bundle.  Only the members that initialize and forward name.
Weight(w, k) == 1000 * w + 16 * k
Param(w) ==
    [ self_layernorm  |-> [gamma |-> Weight(w, 1), beta |-> Weight(w, 2)],
      self_attention  |-> [query_weight |-> [kernel |-> Weight(w, 3)],
                           key_weight |-> [kernel |-> Weight(w, 4)],
                           value_weight |-> [kernel |-> Weight(w, 5)],
                           attention_output_weight |-> [bias |-> Weight(w, 6)]],
      cross_layernorm |-> [gamma |-> Weight(w, 7), beta |-> Weight(w, 8)],
      cross_attention |-> [attention_output_weight |-> [bias |-> Weight(w, 9)]],
      ffn_layernorm   |-> [gamma |-> Weight(w, 10), beta |-> Weight(w, 11)],
      stream          |-> 1 ]
Params == { Param(w) : w \in 1..2 }
NoParam == Param(0)

\* Workspaces the caller allocates: device addresses far enough apart.
Bufs == {65536, 131072}

\* The host array hA of initialize, and the copy that is enqueued
PointerTableSwapped(p, from, q, k, v) ==
    << p.self_attention.query_weight.kernel, p.self_attention.key_weight.kernel,
       p.self_attention.value_weight.kernel, q, k, v, from, from, from >>
PointerTable(p, from, q, k, v) ==
    << p.self_attention.query_weight.kernel, p.self_attention.key_weight.kernel,
       p.self_attention.value_weight.kernel, from, from, from, q, k, v >>

Memcpy(dst, src) == [kind |-> "memcpy", dst |-> dst, src |-> src]

\* where the three pointer arrays start
PointerArraysAfter3(ffn_inner, buf_size) == ElemAdd(ffn_inner, 3 * buf_size)
PointerArrays(ffn_inner, buf_size) == ElemAdd(ffn_inner, 4 * buf_size)

\* void initialize(DecoderInitParam<DataType_> param, DataType_ *buf)
initialize(param, buf) ==
    /\ life = "constructed"
    /\ pc = "idle"
    /\ inits < MaxInits
    /\ LET buf_size == batch_size_ * hidden_units_
           kernel == PointerArrays(ElemAdd(buf, 9 * buf_size), buf_size)
       IN /\ param_' = param
          /\ norm_from_tensor_buf_' = buf
          /\ query_buf_' = ElemAdd(buf, buf_size)
          /\ key_buf_' = ElemAdd(buf, 2 * buf_size)
          /\ value_buf_' = ElemAdd(buf, 3 * buf_size)
          /\ context_buf_' = ElemAdd(buf, 4 * buf_size)
          /\ masked_output_buf_' = ElemAdd(buf, 5 * buf_size)
          /\ norm_masked_output_buf_' = ElemAdd(buf, 6 * buf_size)
          /\ cross_output_buf_' = ElemAdd(buf, 7 * buf_size)
          /\ norm_cross_output_buf_' = ElemAdd(buf, 8 * buf_size)
          /\ ffn_inner_buf_' = ElemAdd(buf, 9 * buf_size)
          /\ qkv_kernel_' = kernel
          /\ qkv_input_' = SlotAdd(kernel, 3)
          /\ qkv_buf_' = SlotAdd(SlotAdd(kernel, 3), 3)
          /\ IF is_fuse_QKV = TRUE
             THEN /\ queue' = Append(queue,
                                Memcpy(kernel,
                                       PointerTable(param, buf, ElemAdd(buf, buf_size),
                                                    ElemAdd(buf, 2 * buf_size),
                                                    ElemAdd(buf, 3 * buf_size))))
                  /\ copies' = copies + 1
             ELSE UNCHANGED <<queue, copies>>
    /\ bound' = buf
    /\ inits' = inits + 1
    /\ UNCHANGED <<envVars, life, tuningVars, dimVars, dmem, tensors, devErr, fwdVars>>

(***************************************************************************)
(* The device executes the operations of the stream in the order in which  *)
(* they were enqueued.                                                     *)
(***************************************************************************)
Written(m, dst, src) ==
    [a \in DOMAIN m \cup { SlotAdd(dst, i - 1) : i \in 1..Len(src) } |->
        IF \E i \in 1..Len(src) : a = SlotAdd(dst, i - 1)
        THEN src[CHOOSE i \in 1..Len(src) : a = SlotAdd(dst, i - 1)]
        ELSE m[a]]

(***************************************************************************)
(* What the sub-kernels compute, after their contracts.  A tensor is one   *)
(* symbolic value: a bag of terms, read as their elementwise sum.  A term  *)
(* is the content an address had before any kernel wrote it ("initial"),   *)
(* or the output of a kernel applied to the tensor `of` with the other     *)
(* operands w (weights, caches, step).                                     *)
(***************************************************************************)
Term(fn, of, w, activation_type) ==
    [fn |-> fn, of |-> of, w |-> w, activation_type |-> activation_type]
Initial(a) == SetToBag({Term("initial", EmptyBag, <<a>>, "-")})
Load(t, a) == IF a \in DOMAIN t THEN t[a] ELSE Initial(a)
Store(t, a, v) == [x \in DOMAIN t \cup {a} |-> IF x = a THEN v ELSE t[x]]

\* norm2: summed = base + summand + extra-bias
SummedNoBase(base, summand, bias) == summand (+) bias
Summed(base, summand, bias) == base (+) summand (+) bias

\* The tensors after kernel k has run on tensors t; the arguments are in the
\* order of the declarations (lines 405-424).
Run(t, k) ==
    LET p == k.args
    IN CASE k.fn = "decoder_norm1" ->
              Store(t, p[4], SetToBag({Term(k.fn, Load(t, p[1]), <<p[2], p[3]>>, "-")}))
         [] k.fn = "masked_multi_head_attention" ->
              Store(t, p[4], SetToBag({Term(k.fn, Load(t, p[1]), <<p[2], p[3], p[5]>>, "-")}))
         [] k.fn = "decoder_norm2" ->
              LET summed == Summed(Load(t, p[1]), Load(t, p[5]), Load(t, p[4]))
              IN Store(Store(t, p[5], summed), p[6],
                       SetToBag({Term(k.fn, summed, <<p[2], p[3]>>, "-")}))
         [] k.fn = "cross_multi_head_attention" ->
              Store(t, p[5],
                    SetToBag({Term(k.fn, Load(t, p[1]),
                                   <<p[2], p[3], p[4], p[6], p[7], p[8]>>, "-")}))
         [] k.fn = "ffn" ->
              Store(t, p[3], SetToBag({Term(k.fn, Load(t, p[1]), << >>, k.activation_type)}))
         [] k.fn = "add_bias_input" ->
              Store(t, p[1], Load(t, p[1]) (+) Load(t, p[2]))

\* A kernel of the current forward call fails while the call is in progress.
NoteFault(o) ==
    IF o.call = calls /\ pc # "idle" /\ failedAt = 0
    THEN failedAt' = Len(trace) /\ failKind' = "fault"
    ELSE UNCHANGED <<failedAt, failKind>>

DeviceRun(faults) ==
    /\ queue # << >>
    /\ queue' = Tail(queue)
    /\ LET o == Head(queue)
       IN \/ /\ o.kind = "memcpy"
             /\ dmem' = IF devErr THEN dmem ELSE Written(dmem, o.dst, o.src)
             /\ UNCHANGED <<tensors, devErr, failedAt, failKind>>
          \/ /\ o.kind = "kernel"
             /\ tensors' = IF devErr THEN tensors ELSE Run(tensors, o)
             /\ UNCHANGED <<dmem, devErr, failedAt, failKind>>
          \/ /\ o.kind = "kernel" /\ ~devErr /\ faults
             /\ devErr' = TRUE
             /\ NoteFault(o)
             /\ tensors' = << >>    \* no tensor can be read back after the error
             /\ UNCHANGED dmem
    /\ UNCHANGED <<envVars, life, objVars, pc, fwd, at, trace, result, calls>>

(***************************************************************************)
(* forward.  The tensors of the caller are device addresses; a sub-kernel  *)
(* invocation is recorded with its name and its arguments in order.        *)
(***************************************************************************)
FwdArgs ==
    [ from_tensor : {2000000}, memory_tensor : {2100000},
      key_cache_ : {2200000}, value_cache_ : {2300000},
      key_mem_cache_ : {2400000}, value_mem_cache_ : {2500000},
      memory_sequence_length : {2600000}, decoder_output : {2700000},
      step : 0..(MaxCalls - 1), is_cross_attention : BOOLEAN ]
NoArgs == CHOOSE a \in FwdArgs : a.step = 0 /\ ~a.is_cross_attention

\* activation_type is the ActivationType passed to ffn, "-" for the others
Call(fn, args) == [fn |-> fn, args |-> args, activation_type |-> "-"]
Ffn(args, activation_type) ==
    [fn |-> "ffn", args |-> args, activation_type |-> activation_type]

\* lines 276-291: the two invocations both variants start with
StagesCommon(a, m, n) ==
    << Call("decoder_norm1",
            <<a.from_tensor, param_.self_layernorm.gamma, param_.self_layernorm.beta,
              norm_from_tensor_buf_, m, n>>),
       Call("masked_multi_head_attention",
            <<norm_from_tensor_buf_, a.key_cache_, a.value_cache_, masked_output_buf_,
              a.step>>) >>

\* lines 306-370: is_cross_attention == true
StagesCrossWrongResidual(a, m, n) ==
    << Call("decoder_norm2",
            <<a.from_tensor, param_.cross_layernorm.gamma, param_.cross_layernorm.beta,
              param_.self_attention.attention_output_weight.bias,
              masked_output_buf_, norm_masked_output_buf_, m, n>>),
       Call("cross_multi_head_attention",
            <<norm_masked_output_buf_, a.memory_tensor, a.key_mem_cache_,
              a.value_mem_cache_, cross_output_buf_, a.memory_sequence_length,
              max_seq_len_, a.step>>),
       Call("decoder_norm2",
            <<masked_output_buf_, param_.ffn_layernorm.gamma, param_.ffn_layernorm.beta,
              param_.cross_attention.attention_output_weight.bias,
              cross_output_buf_, norm_cross_output_buf_, m, n>>),
       Ffn(<<norm_cross_output_buf_, ffn_inner_buf_, a.decoder_output, m, 4 * n, n>>, "RELU"),
       Call("add_bias_input", <<a.decoder_output, masked_output_buf_, m, n>>) >>
StagesCross(a, m, n) ==
    << Call("decoder_norm2",
            <<a.from_tensor, param_.cross_layernorm.gamma, param_.cross_layernorm.beta,
              param_.self_attention.attention_output_weight.bias,
              masked_output_buf_, norm_masked_output_buf_, m, n>>),
       Call("cross_multi_head_attention",
            <<norm_masked_output_buf_, a.memory_tensor, a.key_mem_cache_,
              a.value_mem_cache_, cross_output_buf_, a.memory_sequence_length,
              max_seq_len_, a.step>>),
       Call("decoder_norm2",
            <<masked_output_buf_, param_.ffn_layernorm.gamma, param_.ffn_layernorm.beta,
              param_.cross_attention.attention_output_weight.bias,
              cross_output_buf_, norm_cross_output_buf_, m, n>>),
       Ffn(<<norm_cross_output_buf_, ffn_inner_buf_, a.decoder_output, m, 4 * n, n>>, "RELU"),
       Call("add_bias_input", <<a.decoder_output, cross_output_buf_, m, n>>) >>

\* lines 376-392: is_cross_attention == false
StagesSelfOnlyCrossNorm(a, m, n) ==
    << Call("decoder_norm2",
            <<a.from_tensor, param_.cross_layernorm.gamma, param_.cross_layernorm.beta,
              param_.self_attention.attention_output_weight.bias,
              masked_output_buf_, norm_masked_output_buf_, m, n>>),
       Ffn(<<norm_masked_output_buf_, ffn_inner_buf_, a.decoder_output, m, 4 * n, n>>, "GELU"),
       Call("add_bias_input", <<a.decoder_output, masked_output_buf_, m, n>>) >>
StagesSelfOnly(a, m, n) ==
    << Call("decoder_norm2",
            <<a.from_tensor, param_.ffn_layernorm.gamma, param_.ffn_layernorm.beta,
              param_.self_attention.attention_output_weight.bias,
              masked_output_buf_, norm_masked_output_buf_, m, n>>),
       Ffn(<<norm_masked_output_buf_, ffn_inner_buf_, a.decoder_output, m, 4 * n, n>>, "GELU"),
       Call("add_bias_input", <<a.decoder_output, masked_output_buf_, m, n>>) >>

\* The invocations of forward(a) in program order, with m = batch_size_ and
\* n = hidden_units_.
Stages(a) ==
    StagesCommon(a, batch_size_, hidden_units_)
    \o (IF a.is_cross_attention = TRUE
        THEN StagesCross(a, batch_size_, hidden_units_)
        ELSE StagesSelfOnly(a, batch_size_, hidden_units_))

\* catch (std::runtime_error &error) { throw error; }: how forward ends when
\* an invocation or a check throws
CatchSwallows == "returned"
Catch == "threw"

\* #ifndef NDEBUG cudaDeviceSynchronize(); check_cuda_error(cudaGetLastError());
Checked(nd) == ~nd

\* The kernel an invocation launches on param_.stream: it runs with the
\* workspace and the weights bound when it was launched.
Kernel(c) ==
    [kind |-> "kernel", fn |-> c.fn, call |-> calls, ws |-> bound, param |-> param_,
     args |-> c.args, activation_type |-> c.activation_type]

forward(a) ==
    /\ life = "constructed"
    /\ bound # 0
    /\ pc = "idle"
    /\ calls < MaxCalls
    /\ a.step = calls
    /\ pc' = "call"
    /\ fwd' = a
    /\ at' = [ws |-> bound, param |-> param_]
    /\ trace' = << >>
    /\ result' = "running"
    /\ calls' = calls + 1
    /\ failedAt' = 0
    /\ failKind' = "none"
    /\ UNCHANGED <<envVars, life, objVars, devVars>>

\* forward leaves its try block: by return, or through the catch clause
Leave(how) ==
    /\ pc' = "idle"
    /\ result' = how

\* The next invocation of the call in progress.  It launches its kernel and
\* returns, or it throws std::runtime_error.
Invoke(throws) ==
    /\ pc = "call"
    /\ LET c == Stages(fwd)[Len(trace) + 1]
           last == Len(trace) + 1 = Len(Stages(fwd))
       IN /\ trace' = Append(trace, c)
          /\ \/ /\ queue' = Append(queue, Kernel(c))
                /\ IF Checked(ndebug) THEN pc' = "check" /\ result' = result
                   ELSE IF last THEN Leave("returned")
                   ELSE pc' = "call" /\ result' = result
                /\ UNCHANGED <<failedAt, failKind>>
             \/ /\ throws
                /\ Leave(Catch)
                /\ IF failedAt = 0
                   THEN failedAt' = Len(trace) + 1 /\ failKind' = "throw"
                   ELSE UNCHANGED <<failedAt, failKind>>
                /\ UNCHANGED queue
    /\ UNCHANGED <<envVars, life, objVars, dmem, tensors, devErr, fwd, at, calls>>

\* The check after an invocation in a build without NDEBUG:
\* cudaDeviceSynchronize returns when the device has run everything
\* enqueued, and check_cuda_error throws on the device's error.
Check ==
    /\ pc = "check"
    /\ queue = << >>
    /\ IF devErr THEN Leave(Catch)
       ELSE IF Len(trace) = Len(Stages(fwd)) THEN Leave("returned")
       ELSE pc' = "call" /\ result' = result
    /\ UNCHANGED <<envVars, life, objVars, devVars, fwd, at, trace, calls, failedAt, failKind>>

(***************************************************************************)
(* Tuning files of the model: every prefix of a record                     *)
(*   <int> <float> <id0> <t0> <id1> <float> <id2> <float> <id3> <float>    *)
(*   <id4> <t1>                                                            *)
(* with ids just inside and just outside the precision's range and timings *)
(* in 0..MaxTime, a proper prefix being also followed by junk; or no file. *)
(***************************************************************************)
IdsNear(o) == {AlgoLo(o) - 1, AlgoLo(o), AlgoHi(o), AlgoHi(o) + 1}
Times == 0..MaxTime

Record(ids, t0, t1) ==
    << Tok("int", 200), Tok("flt", 9),
       Tok("int", ids[0]), Tok("flt", t0),
       Tok("int", ids[1]), Tok("flt", 9),
       Tok("int", ids[2]), Tok("flt", 9),
       Tok("int", ids[3]), Tok("flt", 9),
       Tok("int", ids[4]), Tok("flt", t1) >>

Records(o) == { Record(ids, t0, t1) : ids \in [0..4 -> IdsNear(o)], t0 \in Times, t1 \in Times }

TokenLists(o) ==
    LET prefixes == { SubSeq(rec, 1, k) : rec \in Records(o), k \in 0..12 }
    IN prefixes \cup { Append(p, Tok("junk", 0)) : p \in { q \in prefixes : Len(q) < 12 } }

NoFile == [present |-> FALSE, toks |-> << >>]
Files(o) == {NoFile} \cup { [present |-> TRUE, toks |-> t] : t \in TokenLists(o) }

\* Before the constructor runs there is no object: the members are placeholders
\* that nothing reads (the constructor draws the indeterminate values itself).
Fresh ==
    /\ life = "new"
    /\ is_fuse_QKV = FALSE
    /\ cublasAlgo_ = [i \in 0..4 |-> 0]
    /\ batch_size_ = 0 /\ max_seq_len_ = 0 /\ head_num_ = 0
    /\ size_per_head_ = 0 /\ hidden_units_ = 0
    /\ param_ = NoParam
    /\ norm_from_tensor_buf_ = 0 /\ query_buf_ = 0 /\ key_buf_ = 0 /\ value_buf_ = 0
    /\ context_buf_ = 0 /\ masked_output_buf_ = 0 /\ norm_masked_output_buf_ = 0
    /\ cross_output_buf_ = 0 /\ norm_cross_output_buf_ = 0 /\ ffn_inner_buf_ = 0
    /\ qkv_kernel_ = 0 /\ qkv_input_ = 0 /\ qkv_buf_ = 0
    /\ bound = 0 /\ inits = 0 /\ copies = 0
    /\ queue = << >> /\ dmem = << >> /\ tensors = << >> /\ devErr = FALSE
    /\ pc = "idle" /\ fwd = NoArgs /\ trace = << >> /\ result = "none"
    /\ at = [ws |-> 0, param |-> NoParam]
    /\ calls = 0 /\ failedAt = 0 /\ failKind = "none"

CtorArgs(maxB, maxH, maxS) ==
    [batch_size : 1..maxB, seq_len : {5}, head_num : 1..maxH, size_per_head : 1..maxS,
     memory_hidden_units : {7}]

\* one decoder of batch size 2 and hidden width 3
OneDecoder ==
    [batch_size |-> 2, seq_len |-> 5, head_num |-> 1, size_per_head |-> 3,
     memory_hidden_units |-> 7]

InitTuning ==
    /\ op \in OpTypes
    /\ ndebug \in {TRUE}
    /\ file \in Files(op)
    /\ ctor \in CtorArgs(1, 1, 1)
    /\ Fresh

NextTuning == OpenDecoder

SpecTuning == InitTuning /\ [][NextTuning]_vars

(***************************************************************************)
(* The workspace specification: objects of every size within the bounds,   *)
(* constructed without a tuning file, or from one that selects or rejects  *)
(* the fused projection, and bound to workspaces any number of times.      *)
(***************************************************************************)
SomeFiles(o) ==
    { NoFile,
      [present |-> TRUE, toks |-> Record([i \in 0..4 |-> AlgoLo(o)], 1, 1)],
      [present |-> TRUE, toks |-> Record([i \in 0..4 |-> AlgoHi(o)], 1, 3)],
      [present |-> TRUE, toks |-> Record([i \in 0..4 |-> AlgoHi(o) + 1], 1, 1)] }

FewFiles(o) ==
    { NoFile, [present |-> TRUE, toks |-> Record([i \in 0..4 |-> AlgoLo(o)], 1, 1)] }

InitLayout ==
    /\ op \in OpTypes
    /\ ndebug \in {TRUE}
    /\ file \in SomeFiles(op)
    /\ ctor \in CtorArgs(MaxBatch, MaxHeads, MaxSizePerHead)
    /\ Fresh

NextLayout ==
    \/ OpenDecoder
    \/ \E param \in Params, buf \in Bufs : initialize(param, buf)
    \/ DeviceRun(FALSE)

SpecLayout == InitLayout /\ [][NextLayout]_vars

(***************************************************************************)
(* The specification of the decoder in use: one object, in a build with or *)
(* without NDEBUG, bound and rebound by its caller between forward calls,  *)
(* while the device runs the stream.  Under Spec sub-kernels may throw and  *)
(* kernels may fail on the device; under SpecFusion the device does not    *)
(* fail and the caller binds any of the bundles of weights.                *)
(***************************************************************************)
Init ==
    /\ op \in OpTypes
    /\ ndebug \in BOOLEAN
    /\ file \in FewFiles(op)
    /\ ctor = OneDecoder
    /\ Fresh

Next ==
    \/ OpenDecoder
    \/ \E buf \in Bufs : initialize(Param(1), buf)
    \/ \E a \in FwdArgs : forward(a)
    \/ Invoke(TRUE)
    \/ Check
    \/ DeviceRun(TRUE)

Spec == Init /\ [][Next]_vars

NextFusion ==
    \/ OpenDecoder
    \/ \E param \in Params, buf \in Bufs : initialize(param, buf)
    \/ \E a \in FwdArgs : forward(a)
    \/ Invoke(FALSE)
    \/ Check
    \/ DeviceRun(FALSE)

SpecFusion == Init /\ [][NextFusion]_vars

(***************************************************************************)
(* The properties.  B and H are the batch size and the hidden width the    *)
(* object was constructed with.                                            *)
(***************************************************************************)
B == ctor.batch_size
H == ctor.head_num * ctor.size_per_head

\* The regions initialize binds, as byte ranges [lo, hi): the ten tensor
\* regions in the order of the workspace with their sizes in elements, and
\* the three arrays of three pointers.
Range(p, bytes) == [lo |-> p, hi |-> p + bytes]
TensorRegions ==
    << Range(norm_from_tensor_buf_, B * H * ElemSize(op)),
       Range(query_buf_, B * H * ElemSize(op)),
       Range(key_buf_, B * H * ElemSize(op)),
       Range(value_buf_, B * H * ElemSize(op)),
       Range(context_buf_, B * H * ElemSize(op)),
       Range(masked_output_buf_, B * H * ElemSize(op)),
       Range(norm_masked_output_buf_, B * H * ElemSize(op)),
       Range(cross_output_buf_, B * H * ElemSize(op)),
       Range(norm_cross_output_buf_, B * H * ElemSize(op)),
       Range(ffn_inner_buf_, 4 * B * H * ElemSize(op)) >>
PointerRegions ==
    << Range(qkv_kernel_, 3 * PointerSize), Range(qkv_input_, 3 * PointerSize),
       Range(qkv_buf_, 3 * PointerSize) >>
Regions == TensorRegions \o PointerRegions

\* C1 as stated: after initialize(param, buf) every bound region lies inside
\* the first getWorkspaceSize() bytes of buf.
C1_RegionsInsideWorkspaceBytes ==
    inits > 0 =>
        \A i \in 1..Len(Regions) :
            bound <= Regions[i].lo /\ Regions[i].hi <= bound + getWorkspaceSize

\* C1 amended: after initialize(param, buf) every bound region lies inside
\* the first getWorkspaceSize() elements of buf, that is inside its first
\* getWorkspaceSize() * elementSize bytes.
C1_RegionsInsideWorkspaceElements ==
    inits > 0 =>
        \A i \in 1..Len(Regions) :
            /\ bound <= Regions[i].lo
            /\ Regions[i].hi <= bound + getWorkspaceSize * ElemSize(op)

\* A bound FP32 object of 8 elements per region whose last pointer array ends
\* beyond getWorkspaceSize() bytes.
C1_Witness ==
    /\ inits > 0 /\ op = "FP32" /\ B * H = 8 /\ is_fuse_QKV
    /\ Regions[13].hi > bound + getWorkspaceSize

\* C2 as stated: getWorkspaceSize() is 13*b*h*elementSize + 9*pointerSize.
C2_WorkspaceSizeInBytes ==
    life = "constructed" =>
        getWorkspaceSize = 13 * B * H * ElemSize(op) + 9 * PointerSize

\* C2 amended: getWorkspaceSize() is 13*b*h + 9*pointerSize: the element
\* count of the tensor regions plus the byte size of the nine pointers.
C2_WorkspaceSizeInElements ==
    life = "constructed" => getWorkspaceSize = 13 * B * H + 9 * PointerSize

C2_Witness == life = "constructed" /\ B = 2 /\ H = 4 /\ op = "FP16"

\* C3: after any sequence of initialize calls the tensor regions start at the
\* latest buf, each starts where the previous one ends in the order
\* normalized-input, query, key, value, context, masked-output,
\* normalized-masked-output, cross-output, normalized-cross-output,
\* feed-forward-inner (b*h elements each, the last 4*b*h), they are pairwise
\* disjoint, and the kernel-, input- and output-pointer arrays of 3 pointers
\* follow the last one in that order.
C3_RegionsContiguousInOrder ==
    inits > 0 =>
        /\ Regions[1].lo = bound
        /\ \A i \in 1..(Len(Regions) - 1) : Regions[i + 1].lo = Regions[i].hi
        /\ \A i, j \in 1..Len(Regions) : i < j => Regions[i].hi <= Regions[j].lo

\* An object bound a second time, to the other workspace.
C3_Witness == inits >= 2 /\ bound = 131072 /\ B * H = 8 /\ queue # << >>

\* The records of the tuning file that fscanf reads in full, their five ids,
\* the float that follows the first id and the last float.
ParsesFully(f) ==
    /\ f.present
    /\ Len(f.toks) = 12
    /\ \A i \in 1..12 : f.toks[i].k = (IF i % 2 = 1 THEN "int" ELSE "flt")
FileIds(f) == [i \in 0..4 |-> f.toks[2 * i + 3].v]
FloatAfterId0(f) == f.toks[4].v
LastFloat(f) == f.toks[12].v

\* C4 as stated: on a record that parses fully the fusion flag is set iff
\* fusedTime < 3 * splitTime, fusedTime being the float after algoId0 and
\* splitTime the last float of the record.
C4_FuseIffFirstBelowThriceLast ==
    (life # "new" /\ ParsesFully(file)) =>
        (is_fuse_QKV <=> FloatAfterId0(file) < 3 * LastFloat(file))

\* C4 amended: on a record that parses fully the fusion flag is set iff
\* fusedTime < 3 * splitTime, fusedTime being the last float of the record
\* and splitTime the float after algoId0; equality disables fusion.
C4_FuseIffLastBelowThriceFirst ==
    (life # "new" /\ ParsesFully(file)) =>
        (is_fuse_QKV <=> LastFloat(file) < 3 * FloatAfterId0(file))

\* A constructed object with the flag set where the two readings differ.
C4_Witness ==
    /\ life = "constructed" /\ ParsesFully(file) /\ is_fuse_QKV
    /\ ~(FloatAfterId0(file) < 3 * LastFloat(file))

\* C5: on a record that parses fully construction succeeds iff all five ids
\* are in the range of the precision, the process exits otherwise, and a
\* constructed object holds the ids of the file unchanged; every
\* constructed object holds ids of the range only.
ValidIds(o) ==
    IF o = "FP32" THEN CUBLAS_GEMM_DEFAULT..CUBLAS_GEMM_ALGO23
    ELSE CUBLAS_GEMM_DEFAULT_TENSOR_OP..CUBLAS_GEMM_ALGO15_TENSOR_OP
C5_IdsValidated ==
    /\ (life # "new" /\ ParsesFully(file)) =>
          /\ life = "constructed" <=> \A i \in 0..4 : FileIds(file)[i] \in ValidIds(op)
          /\ life = "exited" <=> \E i \in 0..4 : FileIds(file)[i] \notin ValidIds(op)
          /\ life = "constructed" => cublasAlgo_ = FileIds(file)
    /\ life = "constructed" => \A i \in 0..4 : cublasAlgo_[i] \in ValidIds(op)

\* The process has exited on a record whose last id alone is out of range.
C5_Witness ==
    /\ life = "exited" /\ ParsesFully(file)
    /\ \A i \in 0..3 : FileIds(file)[i] \in ValidIds(op)
    /\ FileIds(file)[4] = AlgoHi(op) + 1

\* C6: when the file is missing or fewer than seven values are read,
\* construction completes, the five selectors are the default of the
\* precision and the fusion flag is false, whatever was read.
C6_FallbackToDefaults ==
    (life # "new" /\ ~ParsesFully(file)) =>
        /\ life = "constructed"
        /\ \A i \in 0..4 :
              cublasAlgo_[i] = (IF op = "FP32" THEN CUBLAS_GEMM_DEFAULT
                                ELSE CUBLAS_GEMM_DEFAULT_TENSOR_OP)
        /\ is_fuse_QKV = FALSE

\* Constructed from a record cut before its last float, with an id out of
\* range and a timing read.
C6_Witness ==
    /\ life = "constructed" /\ file.present /\ Len(file.toks) = 11
    /\ file.toks[3].v \notin ValidIds(op)
    /\ \A i \in 1..11 : file.toks[i].k # "junk"

\* C7 as stated: when a sub-kernel of the forward call has failed, no
\* sub-kernel is invoked after it and forward does not return normally: it
\* ends by throwing.
C7_FailureAlwaysRaised ==
    failedAt > 0 =>
        /\ Len(trace) = failedAt
        /\ pc = "idle" => result = "threw"

\* C7 amended: when an invocation of a sub-kernel has thrown, or, in a build
\* without NDEBUG, the kernel of a sub-kernel has failed on the device, no
\* sub-kernel is invoked after it and forward ends by throwing.  (In a build
\* with NDEBUG forward does not look at the device: a kernel that fails
\* there stops nothing.)
C7_ThrownOrCheckedFailureRaised ==
    (failedAt > 0 /\ (failKind = "throw" \/ ~ndebug)) =>
        /\ Len(trace) = failedAt
        /\ pc = "idle" => result = "threw"

\* The debug build's check has thrown for the kernel of the third of seven
\* invocations.
C7_Witness ==
    /\ ~ndebug /\ failKind = "fault" /\ failedAt = 3 /\ fwd.is_cross_attention
    /\ pc = "idle" /\ result = "threw"

\* The regions of the workspace bound when forward was called, by their
\* place in the order of the workspace, and the weights bound then.
Region(k) == at.ws + k * B * H * ElemSize(op)
NormalizedInput == Region(0)
MaskedOutput == Region(5)
NormalizedMaskedOutput == Region(6)
CrossOutput == Region(7)
NormalizedCrossOutput == Region(8)
FeedForwardInner == Region(9)

IsPrefix(s, t) == Len(s) <= Len(t) /\ \A i \in 1..Len(s) : s[i] = t[i]
Passed(x) == \E i \in 1..Len(trace) : \E j \in 1..Len(trace[i].args) : trace[i].args[j] = x

SelfOnlyOrder(a) ==
    << Call("decoder_norm1",
            <<a.from_tensor, at.param.self_layernorm.gamma, at.param.self_layernorm.beta,
              NormalizedInput, B, H>>),
       Call("masked_multi_head_attention",
            <<NormalizedInput, a.key_cache_, a.value_cache_, MaskedOutput, a.step>>),
       Call("decoder_norm2",
            <<a.from_tensor, at.param.ffn_layernorm.gamma, at.param.ffn_layernorm.beta,
              at.param.self_attention.attention_output_weight.bias,
              MaskedOutput, NormalizedMaskedOutput, B, H>>),
       Ffn(<<NormalizedMaskedOutput, FeedForwardInner, a.decoder_output, B, 4 * H, H>>, "GELU"),
       Call("add_bias_input", <<a.decoder_output, MaskedOutput, B, H>>) >>

\* C8: a forward call with is_cross_attention false invokes, in this order
\* and once each, LayerNorm, MaskedAttention, norm2 (base the input, the
\* feed-forward normalization weights, the self-attention output bias,
\* summand masked-output), FeedForward with GELU and the bias-add-residual
\* of masked-output: what it has invoked is always a prefix of that list and
\* the whole list when it returns; CrossAttention is not invoked and the
\* encoder memory and the memory caches are passed to no sub-kernel.
C8_SelfOnlyOrder ==
    (result # "none" /\ fwd.is_cross_attention = FALSE) =>
        /\ IsPrefix(trace, SelfOnlyOrder(fwd))
        /\ result = "returned" => trace = SelfOnlyOrder(fwd)
        /\ \A i \in 1..Len(trace) : trace[i].fn # "cross_multi_head_attention"
        /\ ~Passed(fwd.memory_tensor)
        /\ ~Passed(fwd.key_mem_cache_) /\ ~Passed(fwd.value_mem_cache_)

\* A self-only call has returned after all five invocations, on an object
\* that was bound twice.
C8_Witness ==
    /\ result = "returned" /\ fwd.is_cross_attention = FALSE /\ Len(trace) = 5
    /\ inits = 2 /\ at.ws = 131072

CrossOrder(a) ==
    << Call("decoder_norm1",
            <<a.from_tensor, at.param.self_layernorm.gamma, at.param.self_layernorm.beta,
              NormalizedInput, B, H>>),
       Call("masked_multi_head_attention",
            <<NormalizedInput, a.key_cache_, a.value_cache_, MaskedOutput, a.step>>),
       Call("decoder_norm2",
            <<a.from_tensor, at.param.cross_layernorm.gamma, at.param.cross_layernorm.beta,
              at.param.self_attention.attention_output_weight.bias,
              MaskedOutput, NormalizedMaskedOutput, B, H>>),
       Call("cross_multi_head_attention",
            <<NormalizedMaskedOutput, a.memory_tensor, a.key_mem_cache_,
              a.value_mem_cache_, CrossOutput, a.memory_sequence_length,
              ctor.seq_len, a.step>>),
       Call("decoder_norm2",
            <<MaskedOutput, at.param.ffn_layernorm.gamma, at.param.ffn_layernorm.beta,
              at.param.cross_attention.attention_output_weight.bias,
              CrossOutput, NormalizedCrossOutput, B, H>>),
       Ffn(<<NormalizedCrossOutput, FeedForwardInner, a.decoder_output, B, 4 * H, H>>, "RELU"),
       Call("add_bias_input", <<a.decoder_output, CrossOutput, B, H>>) >>

\* C9: a forward call with is_cross_attention true invokes, in this order
\* and once each, LayerNorm, MaskedAttention, norm2 (base the input, the
\* cross-attention normalization weights, the self-attention output bias,
\* summand masked-output), CrossAttention (query normalized-masked-output,
\* the encoder memory, the memory caches, the memory lengths, the maximum
\* sequence length, the step), norm2 (base masked-output, the feed-forward
\* normalization weights, the cross-attention output bias, summand
\* cross-output), FeedForward with RELU and the bias-add-residual of
\* cross-output: what it has invoked is always a prefix of that list and the
\* whole list when it returns.
C9_CrossOrder ==
    (result # "none" /\ fwd.is_cross_attention = TRUE) =>
        /\ IsPrefix(trace, CrossOrder(fwd))
        /\ result = "returned" => trace = CrossOrder(fwd)

\* A self+cross call has returned after all seven invocations.
C9_Witness ==
    /\ result = "returned" /\ fwd.is_cross_attention = TRUE /\ Len(trace) = 7
    /\ inits = 2

\* The pointer slots of the workspace ws, and what a slot of device memory
\* holds (0 when nothing was written there).
Slot(ws, i) == ws + 13 * B * H * ElemSize(op) + i * PointerSize
Holds(a) == IF a \in DOMAIN dmem THEN dmem[a] ELSE 0
IsCopy(o) == o.kind = "memcpy"
CopiesQueued == { i \in 1..Len(queue) : IsCopy(queue[i]) }

\* C10: with the fusion flag set every initialize enqueues one copy of 9
\* pointers on the stream, and when a kernel of a forward call is next to run
\* on the stream the kernel-pointer array of the workspace bound at the call
\* holds the query, key and value weight matrices bound then, the
\* input-pointer array three times the normalized-input region and the
\* output-pointer array the query, key and value regions; with the flag
\* clear no copy is enqueued and no pointer slot is ever written.
C10_PointerArraysReadyBeforeKernels ==
    life = "constructed" =>
        /\ is_fuse_QKV =>
              /\ copies = inits
              /\ \A i \in CopiesQueued : Len(queue[i].src) = 9
              /\ (queue # << >> /\ Head(queue).kind = "kernel" /\ ~devErr) =>
                    LET k == Head(queue)
                        e == B * H * ElemSize(op)
                    IN /\ Holds(Slot(k.ws, 0)) = k.param.self_attention.query_weight.kernel
                       /\ Holds(Slot(k.ws, 1)) = k.param.self_attention.key_weight.kernel
                       /\ Holds(Slot(k.ws, 2)) = k.param.self_attention.value_weight.kernel
                       /\ \A i \in 3..5 : Holds(Slot(k.ws, i)) = k.ws
                       /\ Holds(Slot(k.ws, 6)) = k.ws + e
                       /\ Holds(Slot(k.ws, 7)) = k.ws + 2 * e
                       /\ Holds(Slot(k.ws, 8)) = k.ws + 3 * e
        /\ ~is_fuse_QKV => copies = 0 /\ CopiesQueued = {} /\ DOMAIN dmem = {}

\* With the flag set and both workspaces written, the first kernel of a call
\* made after the second initialize is next to run.
C10_Witness ==
    /\ is_fuse_QKV /\ inits = 2 /\ Cardinality(DOMAIN dmem) = 18
    /\ queue # << >> /\ Head(queue).kind = "kernel"
    /\ Head(queue).fn = "decoder_norm1"

(***************************************************************************)
(* The value of the final decoder output in the self+cross variant.        *)
(***************************************************************************)
One(term) == SetToBag({term})
Bias(w) == Initial(w.bias)

\* the latest forward call chose the self+cross variant, returned, and the
\* device has run all its kernels without an error
CrossDone ==
    /\ calls > 0 /\ pc = "idle" /\ result = "returned"
    /\ fwd.is_cross_attention
    /\ ~devErr
    /\ \A i \in 1..Len(queue) : queue[i].kind # "kernel"

Input == Initial(fwd.from_tensor)
NormalizedInputValue ==
    One(Term("decoder_norm1", Input,
             <<at.param.self_layernorm.gamma, at.param.self_layernorm.beta>>, "-"))
MaskedAttentionOutput ==
    One(Term("masked_multi_head_attention", NormalizedInputValue,
             <<fwd.key_cache_, fwd.value_cache_, fwd.step>>, "-"))
\* stage 3 leaves input + masked attention output + its bias in masked-output
MaskedSummed ==
    Input (+) MaskedAttentionOutput (+) Bias(at.param.self_attention.attention_output_weight)
NormalizedMaskedValue ==
    One(Term("decoder_norm2", MaskedSummed,
             <<at.param.cross_layernorm.gamma, at.param.cross_layernorm.beta>>, "-"))
CrossAttentionOutput ==
    One(Term("cross_multi_head_attention", NormalizedMaskedValue,
             <<fwd.memory_tensor, fwd.key_mem_cache_, fwd.value_mem_cache_,
               fwd.memory_sequence_length, max_seq_len_, fwd.step>>, "-"))
CrossBias == Bias(at.param.cross_attention.attention_output_weight)
\* stage 5 leaves base + summand + extra-bias in cross-output
CrossSummed == MaskedSummed (+) CrossAttentionOutput (+) CrossBias
NormalizedCrossValue ==
    One(Term("decoder_norm2", CrossSummed,
             <<at.param.ffn_layernorm.gamma, at.param.ffn_layernorm.beta>>, "-"))
FeedForward == One(Term("ffn", NormalizedCrossValue, << >>, "RELU"))
DecoderOutput == Load(tensors, fwd.decoder_output)

\* C11 (as stated): in the self+cross variant, with norm2 obeying its contract,
\* the final decoder output is FeedForward(normalized-cross-output) plus the
\* cross-attention output of stage 4 plus the cross-attention output bias.
C11_ResidualIsCrossOutputPlusBias ==
    CrossDone => DecoderOutput = FeedForward (+) CrossAttentionOutput (+) CrossBias

\* C11 (amended): the residual added in the final stage is the summed tensor
\* that stage 5 left in the cross-output region, that is the cross-attention
\* output of stage 4 plus the cross-attention output bias plus the base of
\* stage 5 (input + masked attention output + self-attention output bias, as
\* stage 3 left it in the masked-output region), so the final decoder output
\* is FeedForward(normalized-cross-output) plus all of these.
C11_ResidualIsStage5Summed ==
    CrossDone =>
        /\ DecoderOutput =
              FeedForward (+) CrossAttentionOutput (+) CrossBias (+) MaskedSummed
        /\ Load(tensors, CrossOutput) = CrossSummed

C11_Witness ==
    /\ CrossDone
    /\ queue = << >>
    /\ BagCardinality(DecoderOutput) = 6
    /\ BagToSet(CrossAttentionOutput) \subseteq BagToSet(DecoderOutput)

====
